---- MODULE Spec2Model ----
(***************************************************************************)
(* Cookie session authentication of the demo application:                  *)
(*   src/src/lib/session.ts       token codec, getSession, updateSession,  *)
(*                                login, logout                            *)
(*   src/unnamed/part_000         middleware (calls updateSession)         *)
(*   src/src/app/page.tsx         Home page, loginAction, logoutAction     *)
(*   src/src/app/protected/page.tsx  ProtectedPage                         *)
(*                                                                         *)
(* Text is modelled as a sequence of code points, binary data as a         *)
(* sequence of bytes.  An optional value (T | null, T | undefined) is a    *)
(* sequence of length 0 or 1.  Time is Date.now() in milliseconds,         *)
(* counted from the start of the run.                                      *)
(***************************************************************************)
EXTENDS Integers, Sequences, FiniteSets, TLC

VARIABLES
    now,      \* the clock read by Date.now()
    jar,      \* the client's cookie jar: cookie name -> optional value
    reqs,     \* the requests of the client being handled by the server
    hist,     \* history: the last login/logout the client has seen applied
    codec     \* a single run of the codec on a drawn payload

vars == <<now, jar, reqs, hist, codec>>

(***************************************************************************)
(* Bounds of the model.                                                    *)
(***************************************************************************)
\* the clock stops advancing here
MaxNow == 900000
\* longest user name drawn for the codec
MaxNameLen == 2
\* the number of Save clicks of a client that saves
MaxSaves == 15
\* the number of Save clicks of a client that also logs in and out
MaxClicks == 3
\* the clock of the runs with requests side by side stops here
MaxRaceNow == 120000
\* the getSession calls a handler makes in one request
MaxCalls == 2
\* the last time of day, in ms, of a client that browses for a long time
MaxBrowseNow == 1380000

(***************************************************************************)
(* Optional values.                                                        *)
(***************************************************************************)
Null == <<>>
Some(x) == <<x>>
IsNull(o) == o = <<>>
The(o) == o[1]

\* the sequence f with every element evaluated
Tuple(f) == f \o <<>>

(***************************************************************************)
(* The outcome of a call: a returned value, or a thrown error.             *)
(***************************************************************************)
Return(v) == [threw |-> FALSE, error |-> "", value |-> v]
Throw(msg) == [threw |-> TRUE, error |-> msg, value |-> Null]

(***************************************************************************)
(* Characters.                                                             *)
(***************************************************************************)
DOT == 46
PAD == 61
QUOTE == 34
BACKSLASH == 92
REPLACEMENT == 65533

\* "ABCDEFGHIJKLMNOPQRSTUVWXYZabcdefghijklmnopqrstuvwxyz0123456789+/"
Base64Alphabet ==
    <<65, 66, 67, 68, 69, 70, 71, 72, 73, 74, 75, 76, 77, 78, 79, 80, 81, 82,
      83, 84, 85, 86, 87, 88, 89, 90, 97, 98, 99, 100, 101, 102, 103, 104,
      105, 106, 107, 108, 109, 110, 111, 112, 113, 114, 115, 116, 117, 118,
      119, 120, 121, 122, 48, 49, 50, 51, 52, 53, 54, 55, 56, 57, 43, 47>>

\* the character of a 6-bit value
Sextet(v) == Base64Alphabet[v + 1]

\* the 6-bit value of a base64 character, 64 for any other character
Unbase64(c) ==
    IF c >= 65 /\ c <= 90 THEN c - 65
    ELSE IF c >= 97 /\ c <= 122 THEN c - 71
    ELSE IF c >= 48 /\ c <= 57 THEN c + 4
    ELSE IF c = 43 THEN 62
    ELSE IF c = 47 THEN 63
    ELSE 64

(***************************************************************************)
(* TextEncoder / TextDecoder: UTF-8, for code points below U+0800.         *)
(***************************************************************************)
\* (the ranges are halved to keep the evaluation shallow)
RECURSIVE TextEncodeRange(_, _, _)
TextEncodeRange(s, lo, hi) ==
    IF lo > hi THEN <<>>
    ELSE IF lo = hi THEN
        (IF s[lo] < 128 THEN <<s[lo]>>
         ELSE <<192 + (s[lo] \div 64), 128 + (s[lo] % 64)>>)
    ELSE TextEncodeRange(s, lo, (lo + hi) \div 2)
         \o TextEncodeRange(s, (lo + hi) \div 2 + 1, hi)

TextEncode(s) == TextEncodeRange(s, 1, Len(s))

IsLead(b, i) ==
    /\ i >= 1 /\ b[i] >= 194 /\ b[i] <= 223
    /\ i + 1 <= Len(b) /\ b[i + 1] >= 128 /\ b[i + 1] <= 191

\* a malformed byte decodes to U+FFFD (the decoder is not in fatal mode)
RECURSIVE TextDecodeRange(_, _, _)
TextDecodeRange(b, lo, hi) ==
    IF lo > hi THEN <<>>
    ELSE IF lo = hi THEN
        (IF b[lo] < 128 THEN <<b[lo]>>
         ELSE IF IsLead(b, lo) THEN <<(b[lo] - 192) * 64 + (b[lo + 1] - 128)>>
         ELSE IF IsLead(b, lo - 1) THEN <<>>
         ELSE <<REPLACEMENT>>)
    ELSE TextDecodeRange(b, lo, (lo + hi) \div 2)
         \o TextDecodeRange(b, (lo + hi) \div 2 + 1, hi)

TextDecode(b) == TextDecodeRange(b, 1, Len(b))

(***************************************************************************)
(* Buffer base64, and the URL-safe variant of session.ts.                  *)
(***************************************************************************)
\* Buffer.from(bytes).toString("base64"): 4 characters for every 3 bytes, the
\* last group padded with "="
Base64Encode(b) ==
    LET n == Len(b)
        B(i) == IF i <= n THEN b[i] ELSE 0
        Char(k) ==
            LET q == (k - 1) \div 4
                r == (k - 1) % 4
                b0 == B(3 * q + 1)
                b1 == B(3 * q + 2)
                b2 == B(3 * q + 3)
            IN  IF r = 0 THEN Sextet(b0 \div 4)
                ELSE IF r = 1 THEN Sextet((b0 % 4) * 16 + (b1 \div 16))
                ELSE IF r = 2 THEN
                    (IF 3 * q + 2 > n THEN PAD ELSE Sextet((b1 % 16) * 4 + (b2 \div 64)))
                ELSE (IF 3 * q + 3 > n THEN PAD ELSE Sextet(b2 % 64))
    IN  Tuple([k \in 1..(4 * ((n + 2) \div 3)) |-> Char(k)])

\* the 6-bit values of the legal characters up to the first "=": the decoder
\* skips a character outside the alphabet and stops at padding
Sextets(s) ==
    LET pads == {i \in 1..Len(s) : s[i] = PAD}
        stop == IF pads = {} THEN Len(s)
                ELSE (CHOOSE i \in pads : \A j \in pads : i <= j) - 1
        legal == SelectSeq(SubSeq(s, 1, stop), LAMBDA c : Unbase64(c) < 64)
    IN  Tuple([i \in 1..Len(legal) |-> Unbase64(legal[i])])

\* Buffer.from(text, "base64"): 3 bytes for every 4 characters, 1 or 2 bytes
\* for a last group of 2 or 3
Base64Decode(s) ==
    LET v == Sextets(s)
        m == Len(v)
        rest == IF m % 4 = 2 THEN 1 ELSE IF m % 4 = 3 THEN 2 ELSE 0
        V(i) == IF i <= m THEN v[i] ELSE 0
        Byte(k) ==
            LET q == (k - 1) \div 3
                r == (k - 1) % 3
                v0 == V(4 * q + 1)
                v1 == V(4 * q + 2)
                v2 == V(4 * q + 3)
                v3 == V(4 * q + 4)
            IN  IF r = 0 THEN v0 * 4 + (v1 \div 16)
                ELSE IF r = 1 THEN (v1 % 16) * 16 + (v2 \div 4)
                ELSE (v2 % 4) * 64 + v3
    IN  Tuple([k \in 1..(3 * (m \div 4) + rest) |-> Byte(k)])

\* String.prototype.replace(/c/g, d) for a single character d
ReplaceAll(s, c, d) == Tuple([i \in 1..Len(s) |-> IF s[i] = c THEN d ELSE s[i]])

\* String.prototype.replace(/c/g, "")
RemoveAll(s, c) == SelectSeq(s, LAMBDA x : x # c)

\* "=".repeat(n)
Repeat(c, n) == Tuple([i \in 1..n |-> c])

\* b64url of binary input (an ArrayBuffer)
b64url(input) ==
    ReplaceAll(ReplaceAll(RemoveAll(Base64Encode(input), PAD), 43, 45), 47, 95)

\* b64url of a string input: it is UTF-8 encoded first
b64urlOfString(input) == b64url(TextEncode(input))

b64urlDecode(input) ==
    LET replaced == ReplaceAll(ReplaceAll(input, 45, 43), 95, 47)
        pad == IF Len(replaced) % 4 = 0 THEN 0 ELSE 4 - (Len(replaced) % 4)
        normalized == replaced \o Repeat(PAD, pad)
    IN  Base64Decode(normalized)

(***************************************************************************)
(* The keyed digest.  HMAC-SHA256 is abstracted to a 16-bit digest of the  *)
(* secret followed by the data, each byte weighted by an odd number that   *)
(* grows with its position: deterministic, keyed, and changed by every     *)
(* change of a single byte of the data.  Its 2 bytes encode to base64      *)
(* with one padding character, as the 32 bytes of SHA-256 do.              *)
(***************************************************************************)
\* "dev-secret-change-me"
secret ==
    <<100, 101, 118, 45, 115, 101, 99, 114, 101, 116, 45, 99, 104, 97, 110,
      103, 101, 45, 109, 101>>

\* the weighted sum of the bytes b[lo..hi], modulo 2^16 (the ranges are
\* halved to keep the evaluation shallow)
RECURSIVE Digest(_, _, _)
Digest(b, lo, hi) ==
    IF lo > hi THEN 0
    ELSE IF lo = hi THEN (b[lo] + 1) * (2 * lo + 1)
    ELSE (Digest(b, lo, (lo + hi) \div 2) + Digest(b, (lo + hi) \div 2 + 1, hi)) % 65536

hmac(data) ==
    LET bytes == TextEncode(secret) \o TextEncode(data)
        h == Digest(bytes, 1, Len(bytes)) % 65536
    IN  <<h \div 256, h % 256>>

(***************************************************************************)
(* JSON of a SessionPayload: [user |-> optional [name], expires |-> Int].  *)
(***************************************************************************)
\* {"alg":"HS256","typ":"JWT"}
HeaderJSON ==
    <<123, 34, 97, 108, 103, 34, 58, 34, 72, 83, 50, 53, 54, 34, 44, 34, 116,
      121, 112, 34, 58, 34, 74, 87, 84, 34, 125>>
\* {"user":
LitUser == <<123, 34, 117, 115, 101, 114, 34, 58>>
\* null
LitNull == <<110, 117, 108, 108>>
\* {"name":
LitName == <<123, 34, 110, 97, 109, 101, 34, 58>>
\* ,"expires":
LitExpires == <<44, 34, 101, 120, 112, 105, 114, 101, 115, 34, 58>>
\* }
LitClose == <<125>>

RECURSIVE Digits(_)
Digits(n) == IF n < 10 THEN <<48 + n>> ELSE Digits(n \div 10) \o <<48 + (n % 10)>>

NumberToJSON(n) == IF n < 0 THEN <<45>> \o Digits(0 - n) ELSE Digits(n)

RECURSIVE EscapeFrom(_, _)
EscapeFrom(s, i) ==
    IF i > Len(s) THEN <<>>
    ELSE (IF s[i] = QUOTE \/ s[i] = BACKSLASH THEN <<BACKSLASH, s[i]>> ELSE <<s[i]>>)
         \o EscapeFrom(s, i + 1)

\* a variant that writes the characters of a string as they are
StringToJSONRaw(s) == <<QUOTE>> \o s \o <<QUOTE>>

StringToJSON(s) == <<QUOTE>> \o EscapeFrom(s, 1) \o <<QUOTE>>

\* JSON.stringify(payload): the keys in insertion order, user then expires
JSONstringify(payload) ==
    LitUser
    \o (IF IsNull(payload.user) THEN LitNull
        ELSE LitName \o StringToJSON(The(payload.user).name) \o LitClose)
    \o LitExpires \o NumberToJSON(payload.expires) \o LitClose

StartsWith(t, i, lit) ==
    /\ i + Len(lit) - 1 <= Len(t)
    /\ SubSeq(t, i, i + Len(lit) - 1) = lit

Failed == [ok |-> FALSE, val |-> <<>>, num |-> 0, next |-> 0]

\* a JSON string from the character after its opening quote
RECURSIVE ScanString(_, _, _)
ScanString(t, i, acc) ==
    IF i > Len(t) THEN Failed
    ELSE IF t[i] = QUOTE THEN [ok |-> TRUE, val |-> acc, num |-> 0, next |-> i + 1]
    ELSE IF t[i] = BACKSLASH THEN
        IF i + 1 <= Len(t) /\ t[i + 1] \in {QUOTE, BACKSLASH}
        THEN ScanString(t, i + 2, Append(acc, t[i + 1]))
        ELSE Failed
    ELSE IF t[i] < 32 THEN Failed
    ELSE ScanString(t, i + 1, Append(acc, t[i]))

RECURSIVE ScanDigits(_, _, _)
ScanDigits(t, i, acc) ==
    IF i <= Len(t) /\ t[i] >= 48 /\ t[i] <= 57
    THEN ScanDigits(t, i + 1, acc * 10 + (t[i] - 48))
    ELSE [ok |-> TRUE, val |-> <<>>, num |-> acc, next |-> i]

\* a JSON integer: an optional minus, then "0" or digits without a leading zero
ScanNumber(t, i) ==
    LET neg == i <= Len(t) /\ t[i] = 45
        j == IF neg THEN i + 1 ELSE i
        d == ScanDigits(t, j, 0)
    IN  IF j > Len(t) \/ t[j] < 48 \/ t[j] > 57 THEN Failed
        ELSE IF t[j] = 48 /\ d.next > j + 1 THEN Failed
        ELSE [d EXCEPT !.num = IF neg THEN 0 - d.num ELSE d.num]

\* JSON.parse on the text of a token's payload: it returns the payload or
\* throws a SyntaxError.  The texts parsed in this model are the payload
\* objects JSON.stringify writes and texts that are no JSON at all.
JSONparse(t) ==
    IF ~StartsWith(t, 1, LitUser) THEN Throw("SyntaxError")
    ELSE
      LET i == Len(LitUser) + 1
          isNull == StartsWith(t, i, LitNull)
          str == IF StartsWith(t, i, LitName \o <<QUOTE>>)
                 THEN ScanString(t, i + Len(LitName) + 1, <<>>)
                 ELSE Failed
          userOk == isNull \/ (str.ok /\ StartsWith(t, str.next, LitClose))
          j == IF isNull THEN i + Len(LitNull) ELSE str.next + 1
          n == IF userOk /\ StartsWith(t, j, LitExpires)
               THEN ScanNumber(t, j + Len(LitExpires))
               ELSE Failed
      IN  IF n.ok /\ StartsWith(t, n.next, LitClose) /\ n.next = Len(t)
          THEN Return(Some([user |-> IF isNull THEN Null ELSE Some([name |-> str.val]),
                            expires |-> n.num]))
          ELSE Throw("SyntaxError")

(***************************************************************************)
(* The token codec.                                                        *)
(***************************************************************************)
\* String.prototype.split("."): the parts between the dots
Split(t) ==
    LET dots == {i \in 1..Len(t) : t[i] = DOT}
        n == Cardinality(dots)
        Pos(m) == IF m = 0 THEN 0
                  ELSE IF m = n + 1 THEN Len(t) + 1
                  ELSE CHOOSE i \in dots : Cardinality({j \in dots : j < i}) = m - 1
    IN  Tuple([k \in 1..(n + 1) |-> SubSeq(t, Pos(k - 1) + 1, Pos(k) - 1)])

\* header.payload.signature, the signature computed over header.payload
Signed(encHeader, encPayload) ==
    LET toSign == encHeader \o <<DOT>> \o encPayload
        sig == hmac(toSign)
        encSig == b64url(sig)
    IN  encHeader \o <<DOT>> \o encPayload \o <<DOT>> \o encSig

\* the signed token of a payload text
Token(payloadJSON) ==
    Signed(b64urlOfString(HeaderJSON), b64urlOfString(payloadJSON))

encrypt(payload) == Token(JSONstringify(payload))

\* a variant that compares the decoded bytes of the signature
decryptTryDecoded(token) ==
    LET parts == Split(token)
    IN  IF Len(parts) # 3 THEN Return(Null)
        ELSE
          LET toSign == parts[1] \o <<DOT>> \o parts[2]
          IN  IF hmac(toSign) # b64urlDecode(parts[3]) THEN Return(Null)
              ELSE JSONparse(TextDecode(b64urlDecode(parts[2])))

\* a variant that does not look at the signature
decryptTryUnsigned(token) ==
    LET parts == Split(token)
    IN  IF Len(parts) # 3 THEN Return(Null)
        ELSE JSONparse(TextDecode(b64urlDecode(parts[2])))

\* the try block of decrypt: it returns the payload or null, or throws
decryptTry(token) ==
    LET parts == Split(token)
    IN  IF Len(parts) # 3 THEN Return(Null)
        ELSE
          LET encHeader == parts[1]
              encPayload == parts[2]
              encSig == parts[3]
              toSign == encHeader \o <<DOT>> \o encPayload
              expected == hmac(toSign)
              expectedStr == b64url(expected)
          IN  IF expectedStr # encSig THEN Return(Null)
              ELSE JSONparse(TextDecode(b64urlDecode(encPayload)))

\* a variant without the catch
decryptUncaught(token) == decryptTry(token)

\* catch { return null }
Caught(r) == IF r.threw THEN Return(Null) ELSE r

\* decrypt: whatever the try block throws is caught and null returned
decrypt(token) == Caught(decryptTry(token))

(***************************************************************************)
(* Cookies.  A cookie write is one Set-Cookie of a response; a write       *)
(* without a value deletes the cookie.  The jar keeps, for each name, the  *)
(* value and the time the cookie's max-age runs out (none for a cookie     *)
(* that was stored without a max-age).                                     *)
(***************************************************************************)
SESSION_COOKIE == "session"

\* the cookie of the saved-items list of the protected page
FLASH_COOKIE == "flash"

CookieNames == {SESSION_COOKIE, FLASH_COOKIE}

\* NODE_ENV is not "production"
Production == FALSE

\* Admin
Admin == <<65, 100, 109, 105, 110>>

SetCookie(name, value, maxAge) ==
    [name |-> name, value |-> Some(value), httpOnly |-> TRUE, path |-> "/",
     sameSite |-> "lax", secure |-> Production, maxAge |-> maxAge]

DeleteCookie(name) ==
    [name |-> name, value |-> Null, httpOnly |-> FALSE, path |-> "/",
     sameSite |-> "", secure |-> FALSE, maxAge |-> 0]

\* the cookies a request carries: the values of the jar
CookieHeader(j) ==
    [n \in CookieNames |-> IF IsNull(j[n]) THEN Null ELSE Some(The(j[n]).value)]

\* the jar after the client has taken one Set-Cookie at time t
Store(j, w, t) ==
    [j EXCEPT ![w.name] =
        IF IsNull(w.value) THEN Null
        ELSE Some([value |-> The(w.value), until |-> Some(t + w.maxAge * 1000)])]

\* the jar after the Set-Cookies of a response, taken in order: the last
\* write of a name wins
RECURSIVE StoreAll(_, _, _)
StoreAll(j, ws, t) ==
    IF ws = <<>> THEN j ELSE StoreAll(Store(j, Head(ws), t), Tail(ws), t)

(***************************************************************************)
(* session.ts: the session lifecycle.  Date.now() is the argument t.       *)
(***************************************************************************)
shortExpiry(t, msFromNow) == t + msFromNow

\* cookies().get("session")?.value is undefined or the empty string
NoToken(cookieStore) ==
    IsNull(cookieStore[SESSION_COOKIE]) \/ The(cookieStore[SESSION_COOKIE]) = <<>>

\* a variant that gives a token a minute past its expires
UnexpiredGrace(r, t) ==
    IF r.threw THEN r
    ELSE IF IsNull(r.value) THEN Return(Null)
    ELSE IF The(r.value).expires + 60 * 1000 < t THEN Return(Null)
    ELSE Return(r.value)

\* getSession once decrypt has answered r: null for no payload and for a
\* payload whose expires is earlier than t
Unexpired(r, t) ==
    IF r.threw THEN r
    ELSE IF IsNull(r.value) THEN Return(Null)
    ELSE IF The(r.value).expires < t THEN Return(Null)
    ELSE Return(r.value)

getSession(cookieStore, t) ==
    IF NoToken(cookieStore) THEN Return(Null)
    ELSE Unexpired(decrypt(The(cookieStore[SESSION_COOKIE])), t)

\* a variant that signs a payload without its user
RefreshedAnonymous(payload, t) ==
    Return(Some([cookies |->
        <<SetCookie(SESSION_COOKIE,
                    encrypt([user |-> Null, expires |-> shortExpiry(t, 10 * 60 * 1000)]),
                    10 * 60)>>]))

\* a variant that grants one minute
RefreshedShort(payload, t) ==
    Return(Some([cookies |->
        <<SetCookie(SESSION_COOKIE,
                    encrypt([payload EXCEPT !.expires = shortExpiry(t, 60 * 1000)]),
                    10 * 60)>>]))

\* the response with the refreshed token of a payload
Refreshed(payload, t) ==
    Return(Some([cookies |->
        <<SetCookie(SESSION_COOKIE,
                    encrypt([payload EXCEPT !.expires = shortExpiry(t, 10 * 60 * 1000)]),
                    10 * 60)>>]))

\* a variant that refreshes in the last minute only
RefreshLastMinute(r, t) ==
    IF r.threw THEN r
    ELSE IF IsNull(r.value) THEN Return(Null)
    ELSE IF The(r.value).expires - t < 60 * 1000 THEN Refreshed(The(r.value), t)
    ELSE Return(Null)

\* a variant that refreshes at exactly two minutes as well
RefreshInclusive(r, t) ==
    IF r.threw THEN r
    ELSE IF IsNull(r.value) THEN Return(Null)
    ELSE IF The(r.value).expires - t <= 2 * 60 * 1000 THEN Refreshed(The(r.value), t)
    ELSE Return(Null)

\* a variant that leaves a token alone once its expires has passed
RefreshUnexpired(r, t) ==
    IF r.threw THEN r
    ELSE IF IsNull(r.value) THEN Return(Null)
    ELSE IF The(r.value).expires - t < 2 * 60 * 1000 /\ The(r.value).expires >= t
    THEN Refreshed(The(r.value), t)
    ELSE Return(Null)

\* updateSession once decrypt has answered r: a response with a refreshed
\* token if the payload has less than two minutes left, else none
Refresh(r, t) ==
    IF r.threw THEN r
    ELSE IF IsNull(r.value) THEN Return(Null)
    ELSE IF The(r.value).expires - t < 2 * 60 * 1000 THEN Refreshed(The(r.value), t)
    ELSE Return(Null)

\* the response of updateSession, if it returns one
updateSession(reqCookies, t) ==
    IF NoToken(reqCookies) THEN Return(Null)
    ELSE Refresh(decrypt(The(reqCookies[SESSION_COOKIE])), t)

\* NextResponse.next()
NextResponseNext == [cookies |-> <<>>]

\* res ?? NextResponse.next()
OrNext(res) ==
    IF res.threw THEN res
    ELSE IF IsNull(res.value) THEN Return(NextResponseNext)
    ELSE Return(The(res.value))

middleware(reqCookies, t) == OrNext(updateSession(reqCookies, t))

\* a variant that accepts a request with either field right
loginEither(formData, t) ==
    IF formData.username # "admin" /\ formData.password # "password"
    THEN Throw("Invalid credentials")
    ELSE Return(<<SetCookie(SESSION_COOKIE,
                            encrypt([user |-> Some([name |-> Admin]),
                                     expires |-> shortExpiry(t, 10 * 60 * 1000)]),
                            10 * 60)>>)

\* a variant that takes the ten minutes in seconds
loginSeconds(formData, t) ==
    IF formData.username # "admin" \/ formData.password # "password"
    THEN Throw("Invalid credentials")
    ELSE Return(<<SetCookie(SESSION_COOKIE,
                            encrypt([user |-> Some([name |-> Admin]),
                                     expires |-> shortExpiry(t, 10 * 60)]),
                            10 * 60)>>)

\* the cookie writes of login, or the error it throws
login(formData, t) ==
    LET username == formData.username
        password == formData.password
    IN  IF username # "admin" \/ password # "password"
        THEN Throw("Invalid credentials")
        ELSE
          LET payload == [user |-> Some([name |-> Admin]),
                          expires |-> shortExpiry(t, 10 * 60 * 1000)]
              token == encrypt(payload)
          IN  Return(<<SetCookie(SESSION_COOKIE, token, 10 * 60)>>)

\* a variant that leaves the cookie
logoutKeeps == Return(<<>>)

\* the cookie writes of logout
logout == Return(<<DeleteCookie(SESSION_COOKIE)>>)

(***************************************************************************)
(* protected/page.tsx: the list of saved items in the flash cookie.  The   *)
(* cookie holds the JSON text of an array of strings.                      *)
(***************************************************************************)
\* Saved at, with the blank after it
SavedAt == <<83, 97, 118, 101, 100, 32, 97, 116, 32>>

TwoDigits(n) == <<48 + (n \div 10), 48 + (n % 10)>>

\* new Date().toLocaleTimeString(): the time of day as hh:mm:ss
toLocaleTimeString(t) ==
    TwoDigits(((t \div 1000) \div 3600) % 24) \o <<58>>
    \o TwoDigits(((t \div 1000) \div 60) % 60) \o <<58>>
    \o TwoDigits((t \div 1000) % 60)

RECURSIVE ItemsToJSON(_, _)
ItemsToJSON(list, i) ==
    IF i > Len(list) THEN <<>>
    ELSE (IF i > 1 THEN <<44>> ELSE <<>>) \o StringToJSON(list[i]) \o ItemsToJSON(list, i + 1)

\* JSON.stringify of an array of strings
JSONstringifyList(list) == <<91>> \o ItemsToJSON(list, 1) \o <<93>>

\* what JSON.parse gave: an array of strings or one string
Parsed(kind, items) == Return([kind |-> kind, items |-> items])

RECURSIVE ScanItems(_, _, _)
RECURSIVE AfterItem(_, _, _)
\* the items of an array from the opening quote of one of them
ScanItems(t, i, acc) ==
    IF i > Len(t) \/ t[i] # QUOTE THEN Throw("SyntaxError")
    ELSE AfterItem(t, ScanString(t, i + 1, <<>>), acc)

AfterItem(t, s, acc) ==
    IF ~s.ok \/ s.next > Len(t) THEN Throw("SyntaxError")
    ELSE IF t[s.next] = 44 THEN ScanItems(t, s.next + 1, Append(acc, s.val))
    ELSE IF t[s.next] = 93 /\ s.next = Len(t) THEN Parsed("array", Append(acc, s.val))
    ELSE Throw("SyntaxError")

\* a text that is one JSON string
WholeString(t, s) ==
    IF s.ok /\ s.next = Len(t) + 1 THEN Parsed("string", <<s.val>>)
    ELSE Throw("SyntaxError")

\* JSON.parse on the text of the flash cookie: an array of strings, one
\* string, or a SyntaxError.  Other JSON values are not written by any code
\* of the model and are not told apart from texts that are no JSON.
JSONparseList(t) ==
    IF t = <<91, 93>> THEN Parsed("array", <<>>)
    ELSE IF Len(t) >= 2 /\ t[1] = 91 THEN ScanItems(t, 2, <<>>)
    ELSE IF Len(t) >= 2 /\ t[1] = QUOTE THEN WholeString(t, ScanString(t, 2, <<>>))
    ELSE Throw("SyntaxError")

\* the list read from a parsed cookie: a text that did not parse is taken
\* as one item
ItemsOf(parsed, raw) == IF parsed.threw THEN <<raw>> ELSE parsed.value.items

\* the list in the flash cookie of a cookie store: none for no cookie
readFlash(cookieStore) ==
    IF IsNull(cookieStore[FLASH_COOKIE]) \/ The(cookieStore[FLASH_COOKIE]) = <<>>
    THEN <<>>
    ELSE ItemsOf(JSONparseList(The(cookieStore[FLASH_COOKIE])), The(cookieStore[FLASH_COOKIE]))

\* a variant that keeps the first 10 of a list of more than 10
CappedOldest(list) == IF Len(list) > 10 THEN SubSeq(list, 1, 10) ELSE list

\* list.slice(-10) for a list of more than 10
Capped(list) ==
    IF Len(list) > 10 THEN SubSeq(list, Len(list) - 9, Len(list)) ELSE list

\* what a page or an action ends with: rendered, redirected, or an error
Outcome(status, to, writes) == [status |-> status, to |-> to, writes |-> writes]

\* a variant that asks for a session but not for its user
SavedAnySession(session, cookieStore, t) ==
    IF session.threw THEN Outcome("error", "", <<>>)
    ELSE IF IsNull(session.value) THEN Outcome("redirect", "/", <<>>)
    ELSE Outcome("redirect", "/protected",
            <<[SetCookie(FLASH_COOKIE,
                         JSONstringifyList(Capped(Append(readFlash(cookieStore),
                                                         SavedAt \o toLocaleTimeString(t)))),
                         60)
                 EXCEPT !.httpOnly = FALSE]>>)

\* saveAction once getSession has answered: redirect("/") without a user,
\* else the list with the new entry is written and redirect("/protected")
Saved(session, cookieStore, t) ==
    IF session.threw THEN Outcome("error", "", <<>>)
    ELSE IF IsNull(session.value) \/ IsNull(The(session.value).user)
    THEN Outcome("redirect", "/", <<>>)
    ELSE Outcome("redirect", "/protected",
            <<[SetCookie(FLASH_COOKIE,
                         JSONstringifyList(Capped(Append(readFlash(cookieStore),
                                                         SavedAt \o toLocaleTimeString(t)))),
                         60)
                 EXCEPT !.httpOnly = FALSE]>>)

saveAction(cookieStore, t) == Saved(getSession(cookieStore, t), cookieStore, t)

(***************************************************************************)
(* The client and its requests.                                            *)
(***************************************************************************)
Slots == {1, 2}

Tick == 60 * 1000

\* the time that may pass in one step
Deltas == {Tick, 8 * Tick}

Usernames == {"admin", "bob"}
Passwords == {"password", "wrong"}

NoForm == [username |-> "", password |-> ""]

IdleReq ==
    [stage |-> "idle", kind |-> "", cookies |-> [n \in CookieNames |-> Null],
     form |-> NoForm, mw |-> <<>>, mwAt |-> 0, out |-> <<>>, got |-> <<>>,
     status |-> "", error |-> "", at |-> 0, to |-> "", items |-> <<>>]

\* cookies a client may hold before its first request: none, an empty value,
\* a token without its signature, a token with a changed signature, a signed
\* text that is no JSON, and signed payloads of an earlier run
\* {"user":{"name":"Admin"},"expires":180000} without the signature
TwoParts ==
    LET parts == Split(encrypt([user |-> Some([name |-> Admin]), expires |-> 180000]))
    IN  parts[1] \o <<DOT>> \o parts[2]

\* hi
SignedGarbage == Token(<<104, 105>>)

\* a signed token whose payload segment is !!!, which is no base64
SignedNoBase64 == Signed(b64urlOfString(HeaderJSON), <<33, 33, 33>>)

InitialCookies ==
    { Null,
      Some(<<>>),
      Some(TwoParts),
      Some(TwoParts \o <<DOT, 65, 65, 65>>),
      Some(SignedGarbage),
      Some(SignedNoBase64),
      Some(encrypt([user |-> Null, expires |-> 600000])),
      Some(encrypt([user |-> Some([name |-> Admin]), expires |-> 90000])),
      Some(encrypt([user |-> Some([name |-> Admin]), expires |-> 180000])) }

\* the history of a client that has done nothing: the last login or logout
\* it has seen answered and when the server handled it, whether a refreshed
\* token has been stored since, the entries of the saves it has seen
\* answered, the time up to which the client counts on its session (ten
\* minutes from its login, or from its last request in the final two minutes
\* before that time), whether every request since its login arrived before
\* that time, and, when
\* the response it stored last came with a refreshed token although its page
\* had found no session, the time the middleware ran for it
NoHistory ==
    [last |-> "none", at |-> 0, refreshed |-> FALSE, saved |-> <<>>,
     kept |-> TRUE, due |-> 0, revived |-> Null]

\* the codec at rest
CodecIdle ==
    [stage |-> "idle", payload |-> [user |-> Null, expires |-> 0], token |-> <<>>,
     tampered |-> FALSE, dec |-> Return(Null), session |-> Return(Null),
     refresh |-> Return(Null)]

Init ==
    /\ now = 0
    /\ jar \in {[n \in CookieNames |->
                    IF n # SESSION_COOKIE \/ IsNull(c) THEN Null
                    ELSE Some([value |-> The(c), until |-> Null])]
                : c \in InitialCookies}
    /\ reqs = [i \in Slots |-> IdleReq]
    /\ hist = NoHistory
    /\ codec = CodecIdle

\* time passes
Advance(d) ==
    /\ now + d <= MaxNow
    /\ now' = now + d
    /\ UNCHANGED <<jar, reqs, hist, codec>>

Quiet == \A i \in Slots : reqs[i].stage = "idle"

\* the client sends a request with the cookies of its jar
Sent(i, kind, form) ==
    /\ reqs[i].stage = "idle"
    /\ reqs' = [reqs EXCEPT ![i] =
                  [IdleReq EXCEPT !.stage = "sent", !.kind = kind,
                                  !.cookies = CookieHeader(jar), !.form = form]]

Send(i, kind, form) ==
    /\ Sent(i, kind, form)
    /\ UNCHANGED <<now, jar, hist, codec>>

\* middleware.ts: runs on every request, before the page or the action
Middleware(i) ==
    /\ reqs[i].stage = "sent"
    /\ \E res \in {middleware(reqs[i].cookies, now)} :
           reqs' = [reqs EXCEPT ![i].stage = "routed",
                                ![i].mw = IF res.threw THEN <<>> ELSE res.value.cookies,
                                ![i].mwAt = now]
    /\ UNCHANGED <<now, jar, hist, codec>>

\* one call of getSession in a request, as the request's log keeps it
Logged(s, t) == [at |-> t, threw |-> s.threw, value |-> s.value]

\* a variant in which the page reads the cookies as the middleware's
\* response leaves them
CallRefreshed(r, t) ==
    Logged(getSession(CookieHeader(StoreAll([n \in CookieNames |->
                                                 IF IsNull(r.cookies[n]) THEN Null
                                                 ELSE Some([value |-> The(r.cookies[n]),
                                                            until |-> Null])],
                                            r.mw, t)), t), t)

\* getSession as a page or an action calls it: over the cookies that came
\* with the request
Call(r, t) == Logged(getSession(r.cookies, t), t)

\* a variant of a render that clears a session cookie that gave no session
pageWritesCleanup(c) == IF IsNull(c.value) THEN <<DeleteCookie(SESSION_COOKIE)>> ELSE <<>>

\* the cookie writes of rendering a page with the session c: none, the
\* pages only read cookies
pageWrites(c) == <<>>

\* page.tsx: Home renders with the session it read
RenderHome(i) ==
    /\ reqs[i].stage = "routed" /\ reqs[i].kind = "home"
    /\ \E c \in {Call(reqs[i], now)} :
           reqs' = [reqs EXCEPT ![i].stage = "done", ![i].at = now,
                                ![i].got = Append(@, c),
                                ![i].out = @ \o pageWrites(c),
                                ![i].status = IF c.threw THEN "error" ELSE "rendered"]
    /\ UNCHANGED <<now, jar, hist, codec>>

\* ProtectedPage once getSession has answered c: redirect("/") unless the
\* session has a user, else the page with the saved items it read
Guarded(c) ==
    IF c.threw THEN Outcome("error", "", pageWrites(c))
    ELSE IF IsNull(c.value) \/ IsNull(The(c.value).user)
    THEN Outcome("redirect", "/", pageWrites(c))
    ELSE Outcome("rendered", "", pageWrites(c))

\* protected/page.tsx: ProtectedPage
RenderProtected(i) ==
    /\ reqs[i].stage = "routed" /\ reqs[i].kind = "protected"
    /\ \E c \in {Call(reqs[i], now)} :
         \E o \in {Guarded(c)} :
           reqs' = [reqs EXCEPT ![i].stage = "done", ![i].at = now,
                                ![i].got = Append(@, c),
                                ![i].out = @ \o o.writes,
                                ![i].status = o.status,
                                ![i].to = o.to,
                                ![i].items = IF o.status = "rendered"
                                             THEN readFlash(reqs[i].cookies) ELSE <<>>]
    /\ UNCHANGED <<now, jar, hist, codec>>

\* protected/page.tsx saveAction
SaveAction(i) ==
    /\ reqs[i].stage = "routed" /\ reqs[i].kind = "save"
    /\ \E c \in {Call(reqs[i], now)} :
         \E o \in {Saved(c, reqs[i].cookies, now)} :
           reqs' = [reqs EXCEPT ![i].stage = "done", ![i].at = now,
                                ![i].got = Append(@, c),
                                ![i].out = @ \o o.writes,
                                ![i].status = o.status,
                                ![i].to = o.to]
    /\ UNCHANGED <<now, jar, hist, codec>>

\* page.tsx loginAction: await login(formData); redirect("/")
LoginAction(i) ==
    /\ reqs[i].stage = "routed" /\ reqs[i].kind = "login"
    /\ \E r \in {login(reqs[i].form, now)} :
           reqs' = [reqs EXCEPT ![i].stage = "done", ![i].at = now,
                                ![i].out = IF r.threw THEN @ ELSE @ \o r.value,
                                ![i].status = IF r.threw THEN "error" ELSE "redirect",
                                ![i].to = IF r.threw THEN "" ELSE "/",
                                ![i].error = r.error]
    /\ UNCHANGED <<now, jar, hist, codec>>

\* page.tsx logoutAction: await logout(); redirect("/")
LogoutAction(i) ==
    /\ reqs[i].stage = "routed" /\ reqs[i].kind = "logout"
    /\ reqs' = [reqs EXCEPT ![i].stage = "done", ![i].at = now,
                            ![i].out = @ \o logout.value,
                            ![i].status = "redirect", ![i].to = "/"]
    /\ UNCHANGED <<now, jar, hist, codec>>

\* a logged-in client has kept browsing if this request too arrived, at t,
\* before the time up to which it counts on its session
KeptBy(h, t) == h.last # "login" \/ (h.kept /\ t < h.due)

\* a request that arrives in the final two minutes before that time moves it
\* to ten minutes from the request
DueAfter(h, t) ==
    IF h.last = "login" /\ t < h.due /\ h.due - t < 2 * 60 * 1000
    THEN t + 10 * 60 * 1000
    ELSE h.due

\* a request whose page or action called getSession and got null
SawNone(r) == r.got # <<>> /\ ~r.got[1].threw /\ IsNull(r.got[1].value)

\* the client takes the response: the Set-Cookies of the middleware's
\* response, then those of the page or action
Receive(i) ==
    /\ reqs[i].stage = "done"
    /\ jar' = StoreAll(jar, reqs[i].mw \o reqs[i].out, now)
    /\ hist' = IF reqs[i].kind = "login" /\ reqs[i].status = "redirect"
               THEN [hist EXCEPT !.last = "login", !.at = reqs[i].at,
                                 !.refreshed = FALSE, !.revived = Null,
                                 !.kept = TRUE, !.due = reqs[i].at + 10 * 60 * 1000]
               ELSE IF reqs[i].kind = "logout"
               THEN [hist EXCEPT !.last = "logout", !.at = reqs[i].at,
                                 !.refreshed = FALSE, !.revived = Null,
                                 !.kept = TRUE, !.due = 0]
               ELSE IF reqs[i].kind = "save" /\ reqs[i].out # <<>>
               THEN [hist EXCEPT !.refreshed = @ \/ reqs[i].mw # <<>>,
                                 !.kept = KeptBy(hist, reqs[i].mwAt),
                                 !.due = DueAfter(hist, reqs[i].mwAt),
                                 !.revived = IF reqs[i].mw = <<>> THEN @ ELSE Null,
                                 !.saved = Append(@, SavedAt \o toLocaleTimeString(reqs[i].at))]
               ELSE IF reqs[i].mw # <<>>
               THEN [hist EXCEPT !.refreshed = TRUE,
                                 !.kept = KeptBy(hist, reqs[i].mwAt),
                                 !.due = DueAfter(hist, reqs[i].mwAt),
                                 !.revived = IF SawNone(reqs[i]) THEN Some(reqs[i].mwAt)
                                             ELSE Null]
               ELSE [hist EXCEPT !.kept = KeptBy(hist, reqs[i].mwAt),
                                 !.due = DueAfter(hist, reqs[i].mwAt)]
    /\ reqs' = [reqs EXCEPT ![i] = IdleReq]
    /\ UNCHANGED <<now, codec>>

\* the client drops a cookie whose max-age has run out
Evict(n) ==
    /\ ~IsNull(jar[n])
    /\ ~IsNull(The(jar[n]).until)
    /\ The(The(jar[n]).until) <= now
    /\ jar' = [jar EXCEPT ![n] = Null]
    /\ UNCHANGED <<now, reqs, hist, codec>>

\* the requests of one client, one after the other
SendNext ==
    /\ Quiet
    /\ \/ \E kind \in {"home", "protected", "logout"} : Send(1, kind, NoForm)
       \/ \E u \in Usernames, p \in Passwords :
              Send(1, "login", [username |-> u, password |-> p])

Next ==
    \/ \E d \in Deltas : Quiet /\ Advance(d)
    \/ SendNext
    \/ \E i \in Slots : Middleware(i)
    \/ \E i \in Slots : RenderHome(i)
    \/ \E i \in Slots : RenderProtected(i)
    \/ \E i \in Slots : LoginAction(i)
    \/ \E i \in Slots : LogoutAction(i)
    \/ \E i \in Slots : Receive(i)
    \/ \E n \in CookieNames : Evict(n)

Spec == Init /\ [][Next]_vars

(***************************************************************************)
(* The codec on its own: a payload is drawn, signed, possibly changed in   *)
(* one character of its signature by the client, and handed back to        *)
(* decrypt, getSession and updateSession.                                  *)
(***************************************************************************)
\* the characters of the user names drawn: a quote, a backslash, e-acute
NameChars == {QUOTE, BACKSLASH, 233}

Names == {Admin} \cup UNION {[1..k -> NameChars] : k \in 0..MaxNameLen}

ExpiresSet == {0, 9 * Tick, 10 * Tick, 20 * Tick}

Payloads ==
    [user : {Null} \cup {Some([name |-> n]) : n \in Names}, expires : ExpiresSet]

CodecInit ==
    /\ now = 10 * Tick
    /\ jar = [n \in CookieNames |-> Null]
    /\ reqs = [i \in Slots |-> IdleReq]
    /\ hist = NoHistory
    /\ codec \in {[CodecIdle EXCEPT !.stage = "input", !.payload = p] : p \in Payloads}

Encrypt ==
    /\ codec.stage = "input"
    /\ codec' = [codec EXCEPT !.stage = "token", !.token = encrypt(codec.payload)]
    /\ UNCHANGED <<now, jar, reqs, hist>>

\* the position in a token of the first character of its signature segment
SignatureStart(token) ==
    LET parts == Split(token) IN Len(parts[1]) + Len(parts[2]) + 3

\* the base64url character d places after c in the alphabet
Shifted(c, d) ==
    LET v == Unbase64(IF c = 45 THEN 43 ELSE IF c = 95 THEN 47 ELSE c)
        x == Sextet((v + d) % 64)
    IN  IF x = 43 THEN 45 ELSE IF x = 47 THEN 95 ELSE x

\* the client changes one character of the signature to another one
TamperSignature(k, c) ==
    /\ codec.stage = "token" /\ ~codec.tampered
    /\ k >= SignatureStart(codec.token) /\ k <= Len(codec.token)
    /\ c # codec.token[k]
    /\ codec' = [codec EXCEPT !.token = [@ EXCEPT ![k] = c], !.tampered = TRUE]
    /\ UNCHANGED <<now, jar, reqs, hist>>

Verify ==
    /\ codec.stage = "token"
    /\ \E store \in {[n \in CookieNames |->
                          IF n = SESSION_COOKIE THEN Some(codec.token) ELSE Null]} :
           codec' = [codec EXCEPT !.stage = "checked",
                                  !.dec = decrypt(codec.token),
                                  !.session = getSession(store, now),
                                  !.refresh = updateSession(store, now)]
    /\ UNCHANGED <<now, jar, reqs, hist>>

CodecNext ==
    \/ Encrypt
    \/ \E k \in 1..Len(codec.token) :
         \E c \in {Shifted(codec.token[k], 1), Shifted(codec.token[k], 32), DOT, PAD} :
            TamperSignature(k, c)
    \/ Verify

CodecSpec == CodecInit /\ [][CodecNext]_vars

(***************************************************************************)
(* Saving on the protected page: a client that clicks Save every five      *)
(* seconds and looks at the pages in between.  No cookie runs out of its   *)
(* max-age in these runs.                                                  *)
(***************************************************************************)
FlashTick == 5 * 1000

FlashStart == 100 * 1000

FlashInit ==
    /\ now = FlashStart
    /\ jar \in {[n \in CookieNames |->
                    IF n # SESSION_COOKIE \/ IsNull(c) THEN Null
                    ELSE Some([value |-> The(c), until |-> Null])]
                : c \in InitialCookies}
    /\ reqs = [i \in Slots |-> IdleReq]
    /\ hist = NoHistory
    /\ codec = CodecIdle

\* the client submits the Save form, five seconds after what it did last
SaveClick(max) ==
    /\ Quiet
    /\ now + FlashTick <= FlashStart + max * FlashTick
    /\ now' = now + FlashTick
    /\ Sent(1, "save", NoForm)
    /\ UNCHANGED <<jar, hist, codec>>

\* the client opens a page
Open ==
    /\ Quiet
    /\ \E kind \in {"home", "protected"} : Send(1, kind, NoForm)

\* the client logs in
SignIn ==
    /\ Quiet
    /\ Send(1, "login", [username |-> "admin", password |-> "password"])

\* the server's part of a request and the client's taking of the response
Serve ==
    \/ \E i \in Slots : Middleware(i)
    \/ \E i \in Slots : RenderHome(i)
    \/ \E i \in Slots : RenderProtected(i)
    \/ \E i \in Slots : SaveAction(i)
    \/ \E i \in Slots : LoginAction(i)
    \/ \E i \in Slots : Receive(i)

FlashNext ==
    \/ SaveClick(MaxSaves)
    \/ Open
    \/ SignIn
    \/ Serve

FlashSpec == FlashInit /\ [][FlashNext]_vars

(***************************************************************************)
(* A client that browses for a long time: it logs in when it is not logged *)
(* in, opens pages minutes apart, and may log out.                         *)
(***************************************************************************)
\* a client that holds no cookie
BrowseInit ==
    /\ now = 0
    /\ jar = [n \in CookieNames |-> Null]
    /\ reqs = [i \in Slots |-> IdleReq]
    /\ hist = NoHistory
    /\ codec = CodecIdle

\* a minute passes between two requests
BrowseWait ==
    /\ Quiet
    /\ now + Tick <= MaxBrowseNow
    /\ now' = now + Tick
    /\ UNCHANGED <<jar, reqs, hist, codec>>

BrowseSignIn ==
    /\ hist.last # "login"
    /\ SignIn

BrowseSignOut ==
    /\ Quiet
    /\ Send(1, "logout", NoForm)

BrowseNext ==
    \/ BrowseWait
    \/ Open
    \/ BrowseSignIn
    \/ BrowseSignOut
    \/ \E i \in Slots : Middleware(i)
    \/ \E i \in Slots : RenderHome(i)
    \/ \E i \in Slots : RenderProtected(i)
    \/ \E i \in Slots : LoginAction(i)
    \/ \E i \in Slots : LogoutAction(i)
    \/ \E i \in Slots : Receive(i)

BrowseSpec == BrowseInit /\ [][BrowseNext]_vars

(***************************************************************************)
(* The pages and the actions together: a client that saves a few times,    *)
(* opens pages, logs in with right and wrong credentials and logs out.     *)
(***************************************************************************)
SignOut ==
    /\ Quiet
    /\ Send(1, "logout", NoForm)

SignInWrong ==
    /\ Quiet
    /\ Send(1, "login", [username |-> "bob", password |-> "wrong"])

PageNext ==
    \/ SaveClick(MaxClicks)
    \/ Open
    \/ SignIn
    \/ SignInWrong
    \/ SignOut
    \/ Serve
    \/ \E i \in Slots : LogoutAction(i)

PageSpec == FlashInit /\ [][PageNext]_vars

(***************************************************************************)
(* Requests side by side: a client with two requests in flight at a time,  *)
(* time passing while they are handled, and the responses taken in any     *)
(* order.                                                                  *)
(***************************************************************************)
\* cookies of the client before its requests: none, or the token of a
\* session with 90 seconds left
RaceCookies ==
    {Null, Some(encrypt([user |-> Some([name |-> Admin]), expires |-> 90000]))}

RaceInit ==
    /\ now = 0
    /\ jar \in {[n \in CookieNames |->
                    IF n # SESSION_COOKIE \/ IsNull(c) THEN Null
                    ELSE Some([value |-> The(c), until |-> Null])]
                : c \in RaceCookies}
    /\ reqs = [i \in Slots |-> IdleReq]
    /\ hist = NoHistory
    /\ codec = CodecIdle

\* time passes, also while requests are in flight
Elapse ==
    /\ now + Tick <= MaxRaceNow
    /\ Advance(Tick)

\* the handler of a page reads the session once more
CallAgain(i) ==
    /\ reqs[i].stage = "done" /\ reqs[i].kind = "home"
    /\ Len(reqs[i].got) < MaxCalls
    /\ reqs' = [reqs EXCEPT ![i].got = Append(@, Call(reqs[i], now))]
    /\ UNCHANGED <<now, jar, hist, codec>>

RaceNext ==
    \/ Elapse
    \/ \E i \in Slots : Send(i, "home", NoForm)
    \/ Send(2, "logout", NoForm)
    \/ \E i \in Slots : Middleware(i)
    \/ \E i \in Slots : RenderHome(i)
    \/ \E i \in Slots : CallAgain(i)
    \/ \E i \in Slots : LogoutAction(i)
    \/ \E i \in Slots : Receive(i)

RaceSpec == RaceInit /\ [][RaceNext]_vars

(***************************************************************************)
(* Properties.                                                             *)
(***************************************************************************)
\* the token of a request's session cookie
TokenOf(r) == The(r.cookies[SESSION_COOKIE])

\* a token that does not decode: not three parts, a signature that is not
\* the one computed over its first two parts, or a payload that is no JSON
Unreadable(token) ==
    LET parts == Split(token)
    IN  \/ Len(parts) # 3
        \/ parts[3] # b64url(hmac(parts[1] \o <<DOT>> \o parts[2]))
        \/ JSONparse(TextDecode(b64urlDecode(parts[2]))).threw

\* the requests that are past the middleware
Routed == {i \in Slots : reqs[i].stage \in {"routed", "done"}}

\* the getSession calls that the requests in flight have made
Calls == UNION {{reqs[i].got[k] : k \in 1..Len(reqs[i].got)} : i \in Slots}

\* C1: decrypt of the token encrypt produced for a payload returns a payload
\* equal to it, whatever the user (absent, or a name with characters that
\* JSON escapes or UTF-8 writes in two bytes) and whatever expires (past,
\* present or future).
C1_RoundTrip ==
    (codec.stage = "checked" /\ ~codec.tampered)
        => codec.dec = Return(Some(codec.payload))

C1_Witness ==
    /\ codec.stage = "checked" /\ ~codec.tampered
    /\ codec.payload = [user |-> Some([name |-> <<QUOTE, 233>>]), expires |-> 0]
    /\ codec.dec = Return(Some(codec.payload))

\* C2: a token whose signature segment differs in one character from the
\* signature of its header and payload is rejected: decrypt returns null,
\* and so getSession returns null and updateSession returns no response.
C2_TamperedRejected ==
    (codec.stage = "checked" /\ codec.tampered)
        => /\ codec.dec = Return(Null)
           /\ codec.session = Return(Null)
           /\ codec.refresh = Return(Null)

\* the changed character is the last one, whose two low bits are not part of
\* the decoded bytes
C2_Witness ==
    /\ codec.stage = "checked" /\ codec.tampered
    /\ codec.payload.expires > now
    /\ b64urlDecode(Split(codec.token)[3])
         = hmac(Split(codec.token)[1] \o <<DOT>> \o Split(codec.token)[2])
    /\ codec.dec = Return(Null)

\* C3: getSession returns null whenever the token's expires is not later
\* than the time of the call, the instant expires = now included; it returns
\* a payload only when expires is strictly later than the time of the call.
C3_NullFromExpiryOn ==
    \A i \in Slots : \A k \in 1..Len(reqs[i].got) :
        (~NoToken(reqs[i].cookies) /\ ~Unreadable(TokenOf(reqs[i])))
            => LET payload == The(decrypt(TokenOf(reqs[i])).value)
                   call == reqs[i].got[k]
               IN  /\ payload.expires <= call.at => IsNull(call.value)
                   /\ ~IsNull(call.value) => payload.expires > call.at

\* C4: login with a username other than admin or a password other than
\* password throws Invalid credentials and writes no cookie.
C4_BadCredentials ==
    \A i \in Slots :
        (/\ reqs[i].stage = "done" /\ reqs[i].kind = "login"
         /\ (reqs[i].form.username # "admin" \/ reqs[i].form.password # "password"))
            => /\ reqs[i].status = "error"
               /\ reqs[i].error = "Invalid credentials"
               /\ reqs[i].out = <<>>
               /\ StoreAll(jar, reqs[i].out, now) = jar

C4_Witness ==
    \E i \in Slots :
        /\ reqs[i].stage = "done" /\ reqs[i].kind = "login"
        /\ reqs[i].form = [username |-> "admin", password |-> "wrong"]
        /\ ~IsNull(jar[SESSION_COOKIE])
        /\ reqs[i].error = "Invalid credentials"

\* the payload login signs at time t
LoginPayload(t) == [user |-> Some([name |-> Admin]), expires |-> t + 10 * 60 * 1000]

\* the answer to a getSession call at time t that found the payload
Found(t, payload) == [at |-> t, threw |-> FALSE, value |-> Some(payload)]

\* C5 as stated: after a successful login at time t, getSession on every
\* following request before t + 10 minutes returns exactly the payload of
\* that login.
C5_AnyFollowingRequest ==
    hist.last = "login"
        => \A call \in Calls :
              call.at < hist.at + 10 * 60 * 1000
                  => call = Found(call.at, LoginPayload(hist.at))

\* C5: a successful login at time t writes the session cookie with the
\* signed token of {user: {name: Admin}, expires: t + 600000}, and the client
\* holds it until t + 10 minutes; getSession on every following request
\* before that expiry returns exactly that payload, as long as no response
\* of the middleware has replaced the token by a refreshed one.
C5_LoginSession ==
    /\ \A i \in Slots :
          (reqs[i].stage = "done" /\ reqs[i].kind = "login"
              /\ reqs[i].form = [username |-> "admin", password |-> "password"])
              => /\ reqs[i].status = "redirect"
                 /\ reqs[i].out = <<SetCookie(SESSION_COOKIE,
                                              encrypt(LoginPayload(reqs[i].at)), 10 * 60)>>
    /\ (hist.last = "login" /\ ~hist.refreshed)
          => /\ now < hist.at + 10 * 60 * 1000 => ~IsNull(jar[SESSION_COOKIE])
             /\ ~IsNull(jar[SESSION_COOKIE])
                   => The(jar[SESSION_COOKIE]).value = encrypt(LoginPayload(hist.at))
             /\ \A call \in Calls :
                   call.at < hist.at + 10 * 60 * 1000
                       => call = Found(call.at, LoginPayload(hist.at))

\* a request nine minutes after the login reads the session of the login
C5_Witness ==
    /\ hist.last = "login" /\ ~hist.refreshed /\ hist.at = Tick
    /\ \E i \in Slots :
          /\ reqs[i].stage = "done" /\ reqs[i].kind = "protected"
          /\ reqs[i].got = <<Found(10 * Tick, LoginPayload(Tick))>>

\* C6: after a logout, getSession returns null on every later request, until
\* the next successful login; the client holds no session cookie.
C6_LoggedOut ==
    hist.last = "logout"
        => /\ IsNull(jar[SESSION_COOKIE])
           /\ \A i \in Slots : reqs[i].stage # "idle" => NoToken(reqs[i].cookies)
           /\ \A call \in Calls : ~call.threw /\ IsNull(call.value)

\* a logout that ended a session, and a request after it
C6_Witness ==
    /\ hist.last = "logout" /\ hist.at > 0
    /\ \E i \in Slots :
          /\ reqs[i].stage = "done" /\ reqs[i].kind = "protected"
          /\ reqs[i].status = "redirect" /\ Len(reqs[i].got) = 1

\* the payload of a request's token, for a token that decodes
PayloadOf(r) == The(decrypt(TokenOf(r)).value)

\* a request that carries a validly signed token
Readable(r) == ~NoToken(r.cookies) /\ ~Unreadable(TokenOf(r))

\* C7: when updateSession runs at time t on a request whose validly signed
\* token has less than 2 minutes left (expires - t < 120000), the response
\* sets the session cookie to a validly signed token with expires =
\* t + 10 minutes and max-age 600 seconds.
C7_RefreshBelowThreshold ==
    \A i \in Routed :
        (Readable(reqs[i]) /\ PayloadOf(reqs[i]).expires - reqs[i].mwAt < 2 * 60 * 1000)
            => /\ Len(reqs[i].mw) = 1
               /\ reqs[i].mw[1].name = SESSION_COOKIE
               /\ reqs[i].mw[1].maxAge = 10 * 60
               /\ ~IsNull(reqs[i].mw[1].value)
               /\ ~Unreadable(The(reqs[i].mw[1].value))
               /\ The(decrypt(The(reqs[i].mw[1].value)).value).expires
                     = reqs[i].mwAt + 10 * 60 * 1000

\* a session with 90 seconds left ends with 600 seconds left
C7_Witness ==
    \E i \in Routed :
        /\ Readable(reqs[i])
        /\ PayloadOf(reqs[i]).expires - reqs[i].mwAt = 90 * 1000
        /\ Len(reqs[i].mw) = 1
        /\ The(decrypt(The(reqs[i].mw[1].value)).value).expires - reqs[i].mwAt = 600 * 1000

C9_NothingToRefresh ==
    \A i \in Routed :
        (NoToken(reqs[i].cookies) \/ Unreadable(TokenOf(reqs[i])))
            => /\ reqs[i].mw = <<>>
               /\ updateSession(reqs[i].cookies, reqs[i].mwAt) = Return(Null)
               /\ middleware(reqs[i].cookies, reqs[i].mwAt) = Return(NextResponseNext)

\* a token of three parts whose signature is not the computed one
C9_Witness ==
    \E i \in Routed :
        /\ reqs[i].cookies[SESSION_COOKIE] = Some(TwoParts \o <<DOT, 65, 65, 65>>)
        /\ reqs[i].mwAt > 0
        /\ reqs[i].mw = <<>>

\* C10: getSession never throws, and it returns null, and nothing else, when
\* the cookie is absent or empty, does not decode (not three parts, no
\* base64, a wrong signature, no JSON) or holds a payload whose expires is
\* earlier than the time of the call.
C10_NeverThrows ==
    \A i \in Slots : \A k \in 1..Len(reqs[i].got) :
        LET call == reqs[i].got[k]
        IN  /\ ~call.threw
            /\ (\/ NoToken(reqs[i].cookies)
                \/ Unreadable(TokenOf(reqs[i]))
                \/ PayloadOf(reqs[i]).expires < call.at)
                  => call = [at |-> call.at, threw |-> FALSE, value |-> Null]

\* a signed token whose payload is no JSON
C10_Witness ==
    \E i \in Slots :
        /\ reqs[i].cookies[SESSION_COOKIE] = Some(SignedGarbage)
        /\ Len(reqs[i].got) = 1
        /\ IsNull(reqs[i].got[1].value)

\* what a call returned, without its time
Answer(call) == [threw |-> call.threw, value |-> call.value]

\* the token of request r runs out between its first call and its k-th
RunsOutBefore(r, k) ==
    /\ Readable(r)
    /\ r.got[1].at <= PayloadOf(r).expires
    /\ PayloadOf(r).expires < r.got[k].at

\* C11 as stated: every getSession call of a request returns what the first
\* call of that request returned.
C11_SameAsFirstCall ==
    \A i \in Slots : \A k \in 1..Len(reqs[i].got) :
        Answer(reqs[i].got[k]) = Answer(reqs[i].got[1])

\* C11: getSession writes no cookie, an expired or undecodable session
\* cookie is left in place, and every call within one request returns what
\* the first call of that request returned, unless the token's expires has
\* passed in between: then the first call returned the payload and the
\* later call returns null.
C11_ReadOnly ==
    \A i \in Slots :
        /\ reqs[i].kind = "home" => reqs[i].out = <<>>
        /\ \A k \in 2..Len(reqs[i].got) :
              IF RunsOutBefore(reqs[i], k)
              THEN /\ reqs[i].got[1].value = Some(PayloadOf(reqs[i]))
                   /\ ~reqs[i].got[1].threw
                   /\ IsNull(reqs[i].got[k].value) /\ ~reqs[i].got[k].threw
              ELSE Answer(reqs[i].got[k]) = Answer(reqs[i].got[1])

\* two calls a minute apart in one request, both returning the payload
C11_Witness ==
    \E i \in Slots :
        /\ Len(reqs[i].got) = 2
        /\ reqs[i].got[1].at < reqs[i].got[2].at
        /\ ~IsNull(reqs[i].got[2].value)
        /\ reqs[i].got[2].value = reqs[i].got[1].value
        /\ ~IsNull(jar[SESSION_COOKIE])

\* the last min(n, 10) of the n entries the client has saved
LastSaved ==
    SubSeq(hist.saved,
           IF Len(hist.saved) > 10 THEN Len(hist.saved) - 9 ELSE 1,
           Len(hist.saved))

Writes(kind) ==
    IF kind \in {"login", "logout"} THEN {SESSION_COOKIE}
    ELSE IF kind = "save" THEN {FLASH_COOKIE}
    ELSE {}

\* C13: cookies are written only by login, logout, the save action and the
\* middleware's updateSession: the render of the home page or of the
\* protected page, which reads the session and the flash list, sets or
\* deletes no cookie, the middleware writes the session cookie only, login
\* and logout write the session cookie only and a save the flash cookie only.
C13_OnlyWriters ==
    \A i \in Slots :
        /\ \A k \in 1..Len(reqs[i].out) : reqs[i].out[k].name \in Writes(reqs[i].kind)
        /\ \A k \in 1..Len(reqs[i].mw) : reqs[i].mw[k].name = SESSION_COOKIE
        /\ (reqs[i].stage = "done" /\ reqs[i].kind \in {"home", "protected"})
              => /\ reqs[i].out = <<>>
                 /\ StoreAll(jar, reqs[i].out, now) = jar

\* the protected page rendered with the saved items it read, after a login
C13_Witness ==
    \E i \in Slots :
        /\ reqs[i].stage = "done" /\ reqs[i].kind = "protected"
        /\ reqs[i].status = "rendered" /\ Len(reqs[i].items) = 2
        /\ hist.last = "login" /\ hist.at > FlashStart
        /\ reqs[i].out = <<>>

\* the session the handler of a request got from getSession has a user
GotUser(r) ==
    /\ Len(r.got) = 1
    /\ ~r.got[1].threw
    /\ ~IsNull(r.got[1].value)
    /\ ~IsNull(The(r.got[1].value).user)

\* a request without a session of a user: no cookie, a token that does not
\* decode, an expired token, or a token with user null
Unauthenticated(r) ==
    \/ NoToken(r.cookies)
    \/ Unreadable(TokenOf(r))
    \/ PayloadOf(r).expires < r.at
    \/ IsNull(PayloadOf(r).user)

\* C14: the protected page is rendered, and the save action writes the flash
\* cookie, only when getSession in the same request returned a payload with
\* a user; without a cookie, with a bad, an expired or a user-null token the
\* request is redirected to "/" and writes no cookie.
C14_FailClosed ==
    \A i \in Slots :
        (reqs[i].stage = "done" /\ reqs[i].kind \in {"protected", "save"})
            => /\ (reqs[i].status = "rendered" \/ reqs[i].out # <<>>) => GotUser(reqs[i])
               /\ (Unauthenticated(reqs[i]) \/ ~GotUser(reqs[i]))
                     => /\ reqs[i].status = "redirect" /\ reqs[i].to = "/"
                        /\ reqs[i].out = <<>>
                        /\ reqs[i].items = <<>>
                        /\ StoreAll(jar, reqs[i].out, now) = jar

\* a save refused for a signed, unexpired token with user null, with a
\* flash cookie in the jar
C14_Witness ==
    \E i \in Slots :
        /\ reqs[i].stage = "done" /\ reqs[i].kind = "save"
        /\ Readable(reqs[i]) /\ IsNull(PayloadOf(reqs[i]).user)
        /\ PayloadOf(reqs[i]).expires > reqs[i].at
        /\ reqs[i].status = "redirect" /\ reqs[i].to = "/"

\* the payload of the token a response of the middleware sets
RefreshedPayload(r) == The(decrypt(The(r.mw[1].value)).value)

\* C15: updateSession refreshes a validly signed token whose expires has
\* passed, however long ago: the response sets the same payload with expires
\* = now + 10 minutes while getSession of that request returns null, and
\* once the client has stored that response getSession returns the refreshed
\* payload on its next request, with no login in between.
C15_ExpiredRefreshed ==
    /\ \A i \in Routed :
          (Readable(reqs[i]) /\ PayloadOf(reqs[i]).expires < reqs[i].mwAt)
              => /\ Len(reqs[i].mw) = 1
                 /\ reqs[i].mw[1].name = SESSION_COOKIE
                 /\ ~IsNull(reqs[i].mw[1].value)
                 /\ ~Unreadable(The(reqs[i].mw[1].value))
                 /\ RefreshedPayload(reqs[i])
                       = [PayloadOf(reqs[i]) EXCEPT !.expires = reqs[i].mwAt + 10 * 60 * 1000]
                 /\ \A k \in 1..Len(reqs[i].got) :
                       ~reqs[i].got[k].threw /\ IsNull(reqs[i].got[k].value)
    /\ ~IsNull(hist.revived)
          => \A call \in Calls :
                call.at < The(hist.revived) + 10 * 60 * 1000
                    => /\ ~call.threw /\ ~IsNull(call.value)
                       /\ The(call.value).expires = The(hist.revived) + 10 * 60 * 1000

\* Admin's token of expires 180000 is refreshed at 240000, and a request at
\* 720000 of the client, which never logged in, finds Admin's session
C15_Witness ==
    /\ hist.last = "none" /\ hist.revived = Some(4 * Tick)
    /\ \E i \in Slots :
          reqs[i].got = <<Found(12 * Tick, [user |-> Some([name |-> Admin]),
                                            expires |-> 14 * Tick])>>

\* the payload of the session cookie of a cookie jar, if it holds one that
\* is validly signed
HeldIn(j) == IF IsNull(j[SESSION_COOKIE]) THEN Null
             ELSE decrypt(The(j[SESSION_COOKIE]).value).value

\* the payload of the token the client holds
Held == HeldIn(jar)

\* C16: a refresh changes only expires: the token that updateSession sets
\* has the user of the token of the request, so over logins, refreshes and
\* logouts a validly signed session cookie of the client has the user of
\* the last successful login, and the client holds none after a logout.
C16_UserKept ==
    /\ \A i \in Routed :
          reqs[i].mw # <<>>
              => /\ Readable(reqs[i])
                 /\ ~Unreadable(The(reqs[i].mw[1].value))
                 /\ RefreshedPayload(reqs[i]).user = PayloadOf(reqs[i]).user
    /\ hist.last = "login"
          => /\ ~IsNull(Held) => The(Held).user = LoginPayload(hist.at).user
             /\ \A call \in Calls :
                   ~IsNull(call.value) => The(call.value).user = LoginPayload(hist.at).user
    /\ hist.last = "logout" => IsNull(Held)

\* the client logged in, a response has refreshed its token since, and the
\* token it holds is Admin's, good for longer than the login's
C16_Witness ==
    /\ hist.last = "login" /\ hist.refreshed
    /\ ~IsNull(Held)
    /\ The(Held).user = Some([name |-> Admin])
    /\ The(Held).expires > hist.at + 10 * 60 * 1000

\* the client takes the response of request i, a page that the middleware
\* answered with a refreshed token
TakesRefresh(i) ==
    /\ reqs[i].stage = "done" /\ reqs'[i].stage = "idle"
    /\ reqs[i].kind = "home" /\ reqs[i].mw # <<>>

\* C17: when requests of one client that carry the same token race past the
\* refresh threshold, then however their handling interleaves and in
\* whatever order the client takes their responses, after each response
\* that refreshes the client holds a validly signed token whose expires is
\* no earlier than that of the token the request carried.
C17_RaceNeverNarrows ==
    [][\A i \in Slots :
          TakesRefresh(i)
              => /\ ~IsNull(HeldIn(jar'))
                 /\ The(HeldIn(jar')) = RefreshedPayload(reqs[i])
                 /\ The(HeldIn(jar')).expires >= PayloadOf(reqs[i]).expires]_vars

\* two requests carried the token of expires 90000; the one handled at 60000
\* was answered first and a further request carries its token of expires
\* 660000, then the client took the response of the one handled at 0 and
\* holds the token of expires 600000
C17_Witness ==
    /\ ~IsNull(Held) /\ The(Held).expires = 10 * Tick
    /\ \E i \in Slots :
          /\ reqs[i].stage # "idle"
          /\ Readable(reqs[i])
          /\ PayloadOf(reqs[i]).expires = 11 * Tick

\* C18: once the client has taken the response of a logout, it holds no
\* session cookie until a successful login, also when requests that carried
\* the old token were in flight beside the logout and the client takes their
\* responses after it.
C18_LogoutFinal ==
    hist.last = "logout" => IsNull(jar[SESSION_COOKIE])

C20_StaysLoggedIn ==
    (hist.last = "login" /\ hist.kept)
        => /\ \A i \in Slots :
                 (reqs[i].got # <<>> /\ reqs[i].mwAt < hist.due)
                     => \A k \in 1..Len(reqs[i].got) :
                           reqs[i].got[k]
                               = Found(reqs[i].got[k].at,
                                       [user |-> Some([name |-> Admin]),
                                        expires |-> hist.due])
           /\ now < hist.due
                 => /\ ~IsNull(Held)
                    /\ The(Held) = [user |-> Some([name |-> Admin]), expires |-> hist.due]

\* twenty-two minutes after its login, and two refreshes later, the client
\* is still Admin
C20_Witness ==
    /\ hist.last = "login" /\ hist.kept
    /\ \E i \in Slots :
          /\ reqs[i].stage = "done" /\ reqs[i].kind = "protected"
          /\ reqs[i].status = "rendered"
          /\ reqs[i].at >= hist.at + 22 * Tick
          /\ reqs[i].got = <<Found(reqs[i].at, [user |-> Some([name |-> Admin]),
                                                expires |-> hist.due])>>

=============================================================================
